---- MODULE Spec2Model ----
(***************************************************************************)
(* Model of pkg.KubernetesClient.ExecuteCommand (src/pkg/kube.go): pod     *)
(* resolution, exec request construction, the io.Pipe handoff between the  *)
(* background exec.Stream goroutine and the foreground ioutil.ReadAll, and  *)
(* the decoding of the collected bytes into a Response.                    *)
(*                                                                         *)
(* Texts (error messages, fmt.Sprintf results) are sequences of string     *)
(* pieces: the literal parts of the format and the values substituted for  *)
(* its verbs, in order.  Remote output is a sequence of JSON tokens.       *)
(***************************************************************************)
EXTENDS Integers, Sequences, FiniteSets, TLC

\* ------------------------------------------------------------------ bounds

\* Largest number of tokens the remote side hands to one pipe Write.
MaxChunk == 2
\* Largest number of tokens the remote command writes to stderr.
MaxStderr == 1

\* ------------------------------------------------------------- input sets

NameSpaces == {"", "default", "prod"}
PodNames == {"", "web", "db"}
ContainerNames == {"", "app", "App"}
CommandSets == {<<"ls">>, <<"cat", "out.json">>}

\* The cluster holds at most one pod, named ClusterPodName.
ClusterPodName == "web"
ClusterNameSpaces == {"default", "prod"}
Phases == {"Pending", "Running", "Succeeded", "Failed"}
ContainerLists == {<< >>, <<"app">>, <<"sidecar", "app">>}
\* API server failure modes other than "the pod does not exist".
Faults == {"none", "Unauthorized"}

\* What the remote command prints on stdout, as JSON tokens.
Outputs ==
  { << >>,
    <<"hello">>,
    <<"null">>,
    <<"{", "}">>,
    <<"{", "\"code\"", ":", "0", ",", "\"success\"", ":", "true", "}">>,
    <<"{", "\"code\"", ":", "-1", ",", "\"error\"", ":", "\"boom\"", "}">> }
StderrToken == "warn"
\* Errors exec.Stream can return.
StreamErrors == {<<"connection reset by peer">>}
\* Errors remotecommand.NewSPDYExecutor can return.
UpgradeErrors == {<<"unable to upgrade connection">>}

\* ----------------------------------------------------------------- errors

NilErr == [nil |-> TRUE, msg |-> << >>]
Error(m) == [nil |-> FALSE, msg |-> m]
EOF == Error(<<"EOF">>)

\* ------------------------------------------------------------------- state

VARIABLES
  pc,         \* position of the foreground path of ExecuteCommand
  opt,        \* the caller's Option, reached through the pointer opt
  opt0,       \* the field values of opt when the call started (history)
  isDestroy,  \* the isDestroy argument
  cluster,    \* the pod the cluster holds, if any
  fault,      \* the API server's failure mode
  pod,        \* the fetched pod (line 98); meaningful from pc = "phase" on
  req,        \* the exec request built at lines 141-154, <<>> before that
  netCalls,   \* requests sent to the API server, in order (history)
  ret,        \* <<>> until ExecuteCommand returns, then <<the Response>>
  err,        \* the function's err variable, shared with the goroutine
  pumpPc,     \* position of the goroutine of lines 165-172
  stdoutRem,  \* what the remote side has yet to write to Stdout
  stderrRem,  \* what the remote side has yet to write to Stderr
  pending,    \* the unread part of the pipe Write in progress
  pipeErr,    \* the error the pipe writer was closed with; NilErr while open
  written,    \* every token handed to writer.Write, in order (history)
  buffer,     \* what ioutil.ReadAll has accumulated
  getErr,     \* the error the pod fetch of line 98 returned (history)
  streamErr,  \* the error exec.Stream returned at line 167 (history)
  upgradeErr, \* the error NewSPDYExecutor returned at line 156 (history)
  made,       \* pipes made and goroutines started by this call (history)
  script,     \* <<>> until the remote command first runs, then <<what it prints>>
  first,      \* <<>>, or <<the outcome of the caller's previous call>> (history)
  client,     \* "ok": c is a constructed KubernetesClient; "nil": c is nil
  mainPc,     \* position of main; "none" when the caller is not main
  newErr,     \* the error NewKubernetesClient returned to main
  logged      \* what main and NewKubernetesClient wrote to klog (history)

vars == <<pc, opt, opt0, isDestroy, cluster, fault, pod, req, netCalls, ret,
          err, pumpPc, stdoutRem, stderrRem, pending, pipeErr, written, buffer,
          getErr, streamErr, upgradeErr, made, script, first, client, mainPc,
          newErr, logged>>

\* What the steps of ExecuteCommand leave alone: the caller's own state.
callerVars == <<first, client, mainPc, newErr, logged>>

streamVars ==
  <<pumpPc, stdoutRem, stderrRem, pending, pipeErr, written, buffer, streamErr>>

\* ------------------------------------------------------------------- types

NoPod == [present |-> FALSE, NameSpace |-> "", Phase |-> "", Containers |-> << >>]

Clusters ==
  {NoPod} \cup
  [present : {TRUE}, NameSpace : ClusterNameSpaces, Phase : Phases,
   Containers : ContainerLists]

Options ==
  [NameSpace : NameSpaces, PodName : PodNames, Container : ContainerNames,
   Commands : CommandSets]

\* Response, lines 78-83.  Result is "nil" for Go's nil interface value.
Response(code, success, e, result) ==
  [Code |-> code, Success |-> success, Err |-> e, Result |-> result]

ZeroResponse == Response(0, FALSE, << >>, "nil")

\* Nothing made yet: no io.Pipe (line 164), no goroutine (line 165).
NoneMade == [pipes |-> 0, tasks |-> 0]

\* ------------------------------------------------- the API server (line 98)

\* The message of the NotFound status the API server answers a GET of a
\* missing pod with.
StatusNotFound(name) == <<"pods \"", name, "\" not found">>

\* clientset.CoreV1().Pods(ns).Get(ctx, name, ...): the pod, or an error.
Get(ns, name) ==
  IF fault # "none" THEN [err |-> Error(<<fault>>), pod |-> NoPod]
  ELSE IF cluster.present /\ cluster.NameSpace = ns /\ name = ClusterPodName
       THEN [err |-> NilErr, pod |-> cluster]
       ELSE [err |-> Error(StatusNotFound(name)), pod |-> NoPod]

\* ------------------------------------------------ pod resolution, 85-138

\* Variant of PodNameEmpty that tests the wrong field.
PodNameEmptyWrongField(o) == o.NameSpace = ""

\* len(opt.PodName) == 0, line 87.
PodNameEmpty(o) == o.PodName = ""

EmptyPodNameResponse ==
  Response(-1, FALSE, <<"can not execute command with empty pod name">>, "nil")

\* Variant of DefaultNameSpace that leaves an empty namespace empty.
DefaultNameSpaceSkipped(ns) == ns

\* Lines 94-96: the namespace after defaulting.
DefaultNameSpace(ns) == IF ns = "" THEN "default" ELSE ns

\* fmt.Sprintf("pods \"%s\" not found", opt.PodName), line 101.
NotFoundInfo(podName) == <<"pods \"", podName, "\" not found">>

\* Variant of GetErrorResponse that never treats a missing pod as success.
GetErrorResponseAlwaysFailure(destroy, e, podName) ==
  Response(-1, FALSE, e.msg, "nil")

\* Variant of GetErrorResponse that treats a missing pod as success for
\* every caller.
GetErrorResponseIgnoringMode(destroy, e, podName) ==
  IF e.msg = <<"pods \"", podName, "\" not found">>
  THEN Response(1, TRUE, << >>, "nil")
  ELSE Response(-1, FALSE, e.msg, "nil")

\* Variant of GetErrorResponse that treats every fetch error as success for a
\* destroy-mode caller.
GetErrorResponseAnyErrorInDestroy(destroy, e, podName) ==
  IF destroy
  THEN Response(1, TRUE, << >>, "nil")
  ELSE Response(-1, FALSE, e.msg, "nil")

\* Lines 99-111: the Response returned when the pod fetch failed with e.
GetErrorResponse(destroy, e, podName) ==
  IF destroy /\ e.msg = NotFoundInfo(podName)
  THEN Response(1, TRUE, << >>, "nil")
  ELSE Response(-1, FALSE, e.msg, "nil")

\* Variant of PhaseCompleted that forgets the Failed phase.
PhaseCompletedSucceededOnly(phase) == phase = "Succeeded"

\* Line 113.
PhaseCompleted(phase) == phase = "Succeeded" \/ phase = "Failed"

\* Variant of CompletedResponse that reports the refusal with a success code.
CompletedResponseSuccessCode(phase) ==
  Response(0, FALSE,
           <<"cannot exec into a container in a completed pod; current phase is ",
             phase>>, "nil")

\* Line 116.
CompletedResponse(phase) ==
  Response(-1, FALSE,
           <<"cannot exec into a container in a completed pod; current phase is ",
             phase>>, "nil")

\* Variant of Matched that compares names without regard to case.
LowerCase(name) == IF name = "App" THEN "app" ELSE name
MatchedFold(containers, name) ==
  \E i \in 1..Len(containers) : LowerCase(containers[i]) = LowerCase(name)

\* Variant of Matched whose loop starts at the second container.
MatchedSkippingFirst(containers, name) ==
  \E i \in 2..Len(containers) : containers[i] = name

\* Lines 125-131: some container of the pod has exactly this name.
Matched(containers, name) ==
  \E i \in 1..Len(containers) : containers[i] = name

\* Line 135.
ContainerNotFoundResponse(container, podName) ==
  Response(-1, FALSE,
           <<"container name: ", container, " not found in pod ", podName>>, "nil")

\* Lines 85-92.
CheckPodName ==
  /\ pc = "start"
  /\ IF PodNameEmpty(opt)
     THEN /\ ret' = <<EmptyPodNameResponse>>
          /\ pc' = "done"
     ELSE /\ ret' = ret
          /\ pc' = "namespace"
  /\ UNCHANGED <<opt, opt0, isDestroy, getErr, cluster, fault, pod, req, netCalls, err>>
  /\ UNCHANGED <<upgradeErr, made, script>>
  /\ UNCHANGED callerVars
  /\ UNCHANGED streamVars

\* Lines 94-96: the default is stored through the caller's pointer.
SetNameSpace ==
  /\ pc = "namespace"
  /\ opt' = [opt EXCEPT !.NameSpace = DefaultNameSpace(opt.NameSpace)]
  /\ pc' = "get"
  /\ UNCHANGED <<opt0, isDestroy, getErr, cluster, fault, pod, req, netCalls, ret, err>>
  /\ UNCHANGED <<upgradeErr, made, script>>
  /\ UNCHANGED callerVars
  /\ UNCHANGED streamVars

\* Lines 98-111.  With a nil receiver c.clientset is a nil pointer
\* dereference: the call panics before anything is sent.
GetPod ==
  /\ pc = "get"
  /\ IF client = "nil"
     THEN /\ pc' = "panic"
          /\ UNCHANGED <<netCalls, err, getErr, pod, ret>>
     ELSE LET got == Get(opt.NameSpace, opt.PodName) IN
       /\ netCalls' = Append(netCalls,
            [op |-> "get", NameSpace |-> opt.NameSpace, PodName |-> opt.PodName,
             Container |-> "", Commands |-> << >>])
       /\ err' = got.err
       /\ getErr' = got.err
       /\ pod' = got.pod
       /\ IF ~got.err.nil
          THEN /\ ret' = <<GetErrorResponse(isDestroy, got.err, opt.PodName)>>
               /\ pc' = "done"
          ELSE /\ ret' = ret
               /\ pc' = "phase"
  /\ UNCHANGED <<opt, opt0, isDestroy, cluster, fault, req>>
  /\ UNCHANGED <<upgradeErr, made, script>>
  /\ UNCHANGED callerVars
  /\ UNCHANGED streamVars

\* Lines 113-117.
CheckPhase ==
  /\ pc = "phase"
  /\ IF PhaseCompleted(pod.Phase)
     THEN /\ ret' = <<CompletedResponse(pod.Phase)>>
          /\ pc' = "done"
     ELSE /\ ret' = ret
          /\ pc' = "container"
  /\ UNCHANGED <<opt, opt0, isDestroy, getErr, cluster, fault, pod, req, netCalls, err>>
  /\ UNCHANGED <<upgradeErr, made, script>>
  /\ UNCHANGED callerVars
  /\ UNCHANGED streamVars

\* Variant of DefaultContainer that takes the pod's last container.
DefaultContainerLast(containers) == containers[Len(containers)]

\* Line 123: pod.Spec.Containers[0].Name.
DefaultContainer(containers) == containers[1]

\* Lines 119-138.  pod.Spec.Containers[0] of an empty list is an index out of
\* range: the goroutine panics and ExecuteCommand returns nothing.
SelectContainer ==
  /\ pc = "container"
  /\ IF opt.Container = ""
     THEN IF Len(pod.Containers) = 0
          THEN /\ pc' = "panic"
               /\ UNCHANGED <<opt, ret>>
          ELSE /\ opt' = [opt EXCEPT !.Container = DefaultContainer(pod.Containers)]
               /\ pc' = "request"
               /\ ret' = ret
     ELSE IF Matched(pod.Containers, opt.Container)
          THEN /\ pc' = "request"
               /\ UNCHANGED <<opt, ret>>
          ELSE /\ ret' = <<ContainerNotFoundResponse(opt.Container, opt.PodName)>>
               /\ pc' = "done"
               /\ opt' = opt
  /\ UNCHANGED <<opt0, isDestroy, getErr, cluster, fault, pod, req, netCalls, err>>
  /\ UNCHANGED <<upgradeErr, made, script>>
  /\ UNCHANGED callerVars
  /\ UNCHANGED streamVars

\* ------------------------------------------- the exec request, 140-162

\* Lines 141-154: POST pods/<name>/exec in the namespace, with the fixed
\* PodExecOptions.
ExecRequest(o) ==
  [op |-> "exec", NameSpace |-> o.NameSpace, PodName |-> o.PodName,
   Container |-> o.Container, Commands |-> o.Commands]

\* Variant of UpgradeFailed that goes on with the executor whatever the error.
UpgradeFailedIgnored(e) == FALSE

\* Line 157.
UpgradeFailed(e) == ~e.nil

\* Line 160.
UpgradeFailedResponse(e) ==
  Response(-1, FALSE, <<"error when NewSPDYExecutor, err: ">> \o e.msg, "nil")

\* Lines 140-162: build the request, then remotecommand.NewSPDYExecutor,
\* which succeeds or fails.
NewExecutor ==
  /\ pc = "request"
  /\ req' = <<ExecRequest(opt)>>
  /\ \E e \in {NilErr} \cup {Error(m) : m \in UpgradeErrors} :
       /\ err' = e
       /\ upgradeErr' = e
       /\ IF UpgradeFailed(e)
          THEN /\ ret' = <<UpgradeFailedResponse(e)>>
               /\ pc' = "done"
          ELSE /\ ret' = ret
               /\ pc' = "pipe"
  /\ UNCHANGED <<opt, opt0, isDestroy, getErr, cluster, fault, pod, netCalls>>
  /\ UNCHANGED <<made, script>>
  /\ UNCHANGED callerVars
  /\ UNCHANGED streamVars

\* --------------------------------------------- the pipe handoff, 164-180

\* Lines 164-165: io.Pipe() and the go statement.
StartPump ==
  /\ pc = "pipe"
  /\ pc' = "readall"
  /\ pumpPc' = "stream"
  /\ made' = [pipes |-> made.pipes + 1, tasks |-> made.tasks + 1]
  /\ UNCHANGED <<opt, opt0, isDestroy, getErr, cluster, fault, pod, req, netCalls, ret, err>>
  /\ UNCHANGED <<upgradeErr, script>>
  /\ UNCHANGED callerVars
  /\ UNCHANGED <<stdoutRem, stderrRem, pending, pipeErr, written, buffer, streamErr>>

StderrOutputs == UNION {[1..n -> {StderrToken}] : n \in 0..MaxStderr}

\* What the remote command can print: anything the first time it runs, and
\* the same again afterwards (the command is deterministic).
RemoteOutputs(sc) ==
  IF sc = << >> THEN [out : Outputs, eout : StderrOutputs] ELSE {sc[1]}

\* Line 167, exec.Stream called: the request goes to the API server, and the
\* remote command has some output to send.
StreamOpen ==
  /\ pumpPc = "stream"
  /\ pumpPc' = "copy"
  /\ netCalls' = Append(netCalls, req[1])
  /\ \E s \in RemoteOutputs(script) :
       /\ stdoutRem' = s.out
       /\ stderrRem' = s.eout
       /\ script' = <<s>>
  /\ UNCHANGED <<pc, opt, opt0, isDestroy, getErr, cluster, fault, pod, req, ret, err>>
  /\ UNCHANGED <<upgradeErr, made>>
  /\ UNCHANGED callerVars
  /\ UNCHANGED <<pending, pipeErr, written, buffer, streamErr>>

\* The first n elements of s, and the rest.
Take(s, n) == SubSeq(s, 1, n)
Drop(s, n) == SubSeq(s, n + 1, Len(s))

\* PipeWriter.Write(b): one Write at a time holds the pipe; it hands b to the
\* reader and returns when all of b was read.
PipeWrite(b) ==
  /\ pending = << >>
  /\ pipeErr.nil
  /\ pending' = b
  /\ written' = written \o b

\* Stream copies the remote stdout into Stdout: writer (line 168).
CopyStdout ==
  /\ pumpPc = "copy"
  /\ \E n \in 1..MaxChunk :
       /\ n <= Len(stdoutRem)
       /\ PipeWrite(Take(stdoutRem, n))
       /\ stdoutRem' = Drop(stdoutRem, n)
  /\ UNCHANGED <<pc, opt, opt0, isDestroy, getErr, cluster, fault, pod, req, netCalls, ret, err>>
  /\ UNCHANGED <<upgradeErr, made, script>>
  /\ UNCHANGED callerVars
  /\ UNCHANGED <<pumpPc, stderrRem, pipeErr, buffer, streamErr>>

\* Stream copies the remote stderr into Stderr: writer (line 169).
CopyStderr ==
  /\ pumpPc = "copy"
  /\ \E n \in 1..MaxChunk :
       /\ n <= Len(stderrRem)
       /\ PipeWrite(Take(stderrRem, n))
       /\ stderrRem' = Drop(stderrRem, n)
  /\ UNCHANGED <<pc, opt, opt0, isDestroy, getErr, cluster, fault, pod, req, netCalls, ret, err>>
  /\ UNCHANGED <<upgradeErr, made, script>>
  /\ UNCHANGED callerVars
  /\ UNCHANGED <<pumpPc, stdoutRem, pipeErr, buffer, streamErr>>

\* Variant of PipeRead that lets the Write return after its first Read,
\* losing what that Read left.
PipeReadLossy(p, n) == [data |-> SubSeq(p, 1, n), rest |-> << >>]

\* What a PipeReader.Read of n elements moves from the Write in progress to
\* the caller's buffer.
PipeRead(p, n) == [data |-> Take(p, n), rest |-> Drop(p, n)]

\* Line 174, one Read of ioutil.ReadAll's loop that found data.
ReadSome ==
  /\ pc = "readall"
  /\ pending # << >>
  /\ \E n \in 1..Len(pending) :
       LET r == PipeRead(pending, n) IN
         /\ buffer' = buffer \o r.data
         /\ pending' = r.rest
  /\ UNCHANGED <<pc, opt, opt0, isDestroy, getErr, cluster, fault, pod, req, netCalls, ret, err>>
  /\ UNCHANGED <<upgradeErr, made, script>>
  /\ UNCHANGED callerVars
  /\ UNCHANGED <<pumpPc, stdoutRem, stderrRem, pipeErr, written, streamErr>>

\* Line 167: exec.Stream returns nil once both remote streams are copied.
StreamReturn ==
  /\ pumpPc = "copy"
  /\ pending = << >>
  /\ stdoutRem = << >> /\ stderrRem = << >>
  /\ err' = NilErr
  /\ streamErr' = NilErr
  /\ pumpPc' = "close"
  /\ UNCHANGED <<pc, opt, opt0, isDestroy, getErr, cluster, fault, pod, req, netCalls, ret>>
  /\ UNCHANGED <<upgradeErr, made, script>>
  /\ UNCHANGED callerVars
  /\ UNCHANGED <<stdoutRem, stderrRem, pending, pipeErr, written, buffer>>

\* Line 167: exec.Stream returns an error, before or between its writes.
StreamFail ==
  /\ pumpPc = "copy"
  /\ pending = << >>
  /\ \E m \in StreamErrors : err' = Error(m) /\ streamErr' = Error(m)
  /\ pumpPc' = "close"
  /\ UNCHANGED <<pc, opt, opt0, isDestroy, getErr, cluster, fault, pod, req, netCalls, ret>>
  /\ UNCHANGED <<upgradeErr, made, script>>
  /\ UNCHANGED callerVars
  /\ UNCHANGED <<stdoutRem, stderrRem, pending, pipeErr, written, buffer>>

\* PipeWriter.CloseWithError(e): a nil e closes the pipe with io.EOF.
CloseWithError(e) == IF e.nil THEN EOF ELSE e

\* Variant of WriterClose that leaves the pipe open.
WriterCloseMissing(e) == NilErr

\* What the deferred call of line 166 closes the pipe with: writer.Close()
\* is CloseWithError(nil), whatever Stream returned into err.
WriterClose(e) == CloseWithError(NilErr)

\* Line 166: the deferred writer.Close() runs as the goroutine ends.
PumpClose ==
  /\ pumpPc = "close"
  /\ pipeErr' = WriterClose(err)
  /\ pumpPc' = "exited"
  /\ UNCHANGED <<pc, opt, opt0, isDestroy, getErr, cluster, fault, pod, req, netCalls, ret, err>>
  /\ UNCHANGED <<upgradeErr, made, script>>
  /\ UNCHANGED callerVars
  /\ UNCHANGED <<stdoutRem, stderrRem, pending, written, buffer, streamErr>>

\* The error ioutil.ReadAll returns when Read returned e: io.EOF is the
\* normal end and becomes nil.
ReadAllError(e) == IF e = EOF THEN NilErr ELSE e

\* Line 178.
ReadFailedResponse(e) ==
  Response(-1, FALSE, <<"read resp got error: ">> \o e.msg, "nil")

\* Lines 174-180: the Read that finds the pipe closed ends ReadAll.
ReadAllReturn ==
  /\ pc = "readall"
  /\ pending = << >>
  /\ ~pipeErr.nil
  /\ LET e == ReadAllError(pipeErr) IN
       /\ err' = e
       /\ IF ~e.nil
          THEN /\ ret' = <<ReadFailedResponse(e)>>
               /\ pc' = "done"
          ELSE /\ ret' = ret
               /\ pc' = "decode"
  /\ UNCHANGED <<opt, opt0, isDestroy, getErr, cluster, fault, pod, req, netCalls>>
  /\ UNCHANGED <<upgradeErr, made, script>>
  /\ UNCHANGED callerVars
  /\ UNCHANGED streamVars

\* ------------------------------------------------ json.Unmarshal, 184-191
\* The decoder works on JSON tokens.  The grammar covered is a scalar, or an
\* object whose members have scalar values.

IntTokens == {"0", "1", "-1"}
\* Numbers json accepts that do not fit an int32 field.
OtherNumberTokens == {"1.5", "3000000000"}
BoolTokens == {"true", "false"}
StringTokens ==
  {"\"code\"", "\"Code\"", "\"success\"", "\"error\"", "\"result\"", "\"other\"",
   "\"boom\"", "\"ok\"", "\"\""}

IsScalar(t) ==
  t \in IntTokens \cup OtherNumberTokens \cup BoolTokens \cup StringTokens \cup {"null"}

IntValue(t) == CASE t = "1" -> 1 [] t = "-1" -> -1 [] OTHER -> 0

\* The text of a string token: the empty string is the empty text.
StringValue(t) ==
  CASE t = "\"\"" -> << >>
    [] t = "\"boom\"" -> <<"boom">>
    [] t = "\"ok\"" -> <<"ok">>
    [] t = "\"code\"" -> <<"code">>
    [] t = "\"Code\"" -> <<"Code">>
    [] t = "\"success\"" -> <<"success">>
    [] t = "\"error\"" -> <<"error">>
    [] t = "\"result\"" -> <<"result">>
    [] OTHER -> <<"other">>

\* Variant of FieldOf that looks for the Go field name Err, not the tag.
FieldOfErrByName(key) ==
  CASE key \in {"\"code\"", "\"Code\""} -> "Code"
    [] key = "\"success\"" -> "Success"
    [] key = "\"err\"" -> "Err"
    [] key = "\"result\"" -> "Result"
    [] OTHER -> ""

\* The Response field a member's key selects; keys match the json tags of
\* lines 79-82 without regard to case, and other keys are skipped.
FieldOf(key) ==
  CASE key \in {"\"code\"", "\"Code\""} -> "Code"
    [] key = "\"success\"" -> "Success"
    [] key = "\"error\"" -> "Err"
    [] key = "\"result\"" -> "Result"
    [] OTHER -> ""

RECURSIVE ValidMembers(_)
ValidMembers(s) ==
  /\ Len(s) >= 3
  /\ s[1] \in StringTokens
  /\ s[2] = ":"
  /\ IsScalar(s[3])
  /\ \/ Len(s) = 3
     \/ /\ Len(s) > 4
        /\ s[4] = ","
        /\ ValidMembers(Drop(s, 4))

\* The scanner's check of the whole input, made before anything is stored.
ValidJSON(toks) ==
  \/ Len(toks) = 1 /\ IsScalar(toks[1])
  \/ /\ Len(toks) >= 2
     /\ toks[1] = "{"
     /\ toks[Len(toks)] = "}"
     /\ \/ Len(toks) = 2
        \/ ValidMembers(SubSeq(toks, 2, Len(toks) - 1))

SyntaxError(toks) ==
  IF toks = << >> THEN Error(<<"unexpected end of JSON input">>)
  ELSE Error(<<"invalid character looking for beginning of value">>)

TypeError(t, field) ==
  Error(<<"json: cannot unmarshal ", t, " into Go value of type ", field>>)

\* The decoder keeps the first type error and goes on.
SaveError(old, new) == IF old.nil THEN new ELSE old

\* Store one member of the object into the Response.
SetMember(acc, key, val) ==
  LET f == FieldOf(key) IN
    CASE f = "" \/ val = "null" -> acc
      [] f = "Code" ->
           IF val \in IntTokens
           THEN [acc EXCEPT !.resp.Code = IntValue(val)]
           ELSE [acc EXCEPT !.err = SaveError(acc.err, TypeError(val, "int32"))]
      [] f = "Success" ->
           IF val \in BoolTokens
           THEN [acc EXCEPT !.resp.Success = (val = "true")]
           ELSE [acc EXCEPT !.err = SaveError(acc.err, TypeError(val, "bool"))]
      [] f = "Err" ->
           IF val \in StringTokens
           THEN [acc EXCEPT !.resp.Err = StringValue(val)]
           ELSE [acc EXCEPT !.err = SaveError(acc.err, TypeError(val, "string"))]
      [] OTHER -> [acc EXCEPT !.resp.Result = val]

RECURSIVE SetMembers(_, _)
SetMembers(acc, s) ==
  IF Len(s) < 3 THEN acc
  ELSE SetMembers(SetMember(acc, s[1], s[3]), Drop(s, 4))

\* json.Unmarshal(buffer, &resp) into a zero Response: the error and what
\* resp holds afterwards.
Unmarshal(toks) ==
  IF ~ValidJSON(toks) THEN [err |-> SyntaxError(toks), resp |-> ZeroResponse]
  ELSE IF Len(toks) = 1
       THEN IF toks[1] = "null"
            THEN [err |-> NilErr, resp |-> ZeroResponse]
            ELSE [err |-> TypeError(toks[1], "pkg.Response"), resp |-> ZeroResponse]
       ELSE SetMembers([err |-> NilErr, resp |-> ZeroResponse],
                       SubSeq(toks, 2, Len(toks) - 1))

\* ---------------------------------------- the serialized Response, 78-83
\* What json.Marshal writes for a Response under the tags of lines 79-82:
\* code and success always, error and result only when not empty.

IntToken(n) == CASE n = 1 -> "1" [] n = -1 -> "-1" [] OTHER -> "0"
BoolToken(b) == IF b THEN "true" ELSE "false"
StringToken(text) ==
  CASE text = <<"boom">> -> "\"boom\"" [] text = <<"ok">> -> "\"ok\"" [] OTHER -> "\"\""

Marshal(r) ==
  <<"{", "\"code\"", ":", IntToken(r.Code), ",", "\"success\"", ":", BoolToken(r.Success)>>
    \o (IF r.Err # << >> THEN <<",", "\"error\"", ":", StringToken(r.Err)>> ELSE << >>)
    \o (IF r.Result # "nil" THEN <<",", "\"result\"", ":", r.Result>> ELSE << >>)
    \o <<"}">>

\* The envelopes considered: every sign of code, both values of success,
\* error and result empty and not.
EnvelopeResponses ==
  [Code : {-1, 0, 1}, Success : BOOLEAN, Err : {<< >>, <<"boom">>},
   Result : {"nil", "\"ok\""}]

IsEnvelope(toks) == \E r \in EnvelopeResponses : Marshal(r) = toks

\* Variant of DecodeFailedResponse that hands the raw output back as the
\* result.
DecodePassThroughResponse(respString, e) ==
  Response(0, TRUE, << >>, IF respString = << >> THEN "nil" ELSE respString[1])

\* Line 189.
DecodeFailedResponse(respString, e) ==
  Response(-1, FALSE,
           <<"unmarsh json ">> \o respString \o <<" got error: ">> \o e.msg, "nil")

\* Lines 182-193.
Decode ==
  /\ pc = "decode"
  /\ LET u == Unmarshal(buffer) IN
       /\ err' = u.err
       /\ ret' = IF ~u.err.nil
                 THEN <<DecodeFailedResponse(buffer, u.err)>>
                 ELSE <<u.resp>>
  /\ pc' = "done"
  /\ UNCHANGED <<opt, opt0, isDestroy, getErr, cluster, fault, pod, req, netCalls>>
  /\ UNCHANGED <<upgradeErr, made, script>>
  /\ UNCHANGED callerVars
  /\ UNCHANGED streamVars

\* ----------------------------------------------------------- specification

\* Nothing of a call has happened yet.
CallFresh ==
  /\ opt0 = opt
  /\ pod = NoPod
  /\ req = << >>
  /\ netCalls = << >>
  /\ ret = << >>
  /\ err = NilErr
  /\ pumpPc = "none"
  /\ stdoutRem = << >>
  /\ stderrRem = << >>
  /\ pending = << >>
  /\ pipeErr = NilErr
  /\ written = << >>
  /\ buffer = << >>
  /\ getErr = NilErr
  /\ streamErr = NilErr
  /\ upgradeErr = NilErr
  /\ made = NoneMade

\* The state a call of ExecuteCommand starts in.
CallStart == pc = "start" /\ CallFresh

\* The caller holds a constructed client and has made no call yet.
ClientReady ==
  /\ first = << >>
  /\ client = "ok"
  /\ mainPc = "none"
  /\ newErr = NilErr
  /\ logged = << >>

\* A caller is about to call ExecuteCommand(opt, isDestroy) on some cluster.
Init ==
  /\ opt \in Options
  /\ isDestroy \in BOOLEAN
  /\ cluster \in Clusters
  /\ fault \in Faults
  /\ script = << >>
  /\ CallStart
  /\ ClientReady

Next ==
  \/ CheckPodName
  \/ SetNameSpace
  \/ GetPod
  \/ CheckPhase
  \/ SelectContainer
  \/ NewExecutor
  \/ StartPump
  \/ StreamOpen
  \/ CopyStdout
  \/ CopyStderr
  \/ ReadSome
  \/ StreamReturn
  \/ StreamFail
  \/ PumpClose
  \/ ReadAllReturn
  \/ Decode

Spec == Init /\ [][Next]_vars

\* Calls for the pod of the cluster, running or not, with every remote output
\* and every outcome of the executor and the stream.
InitHandoff ==
  /\ opt \in {o \in Options : o.PodName = ClusterPodName /\ o.Commands = <<"ls">>}
  /\ isDestroy \in BOOLEAN
  /\ cluster \in {c \in Clusters : c.present /\ c.Phase \in {"Running", "Failed"}}
  /\ fault \in Faults
  /\ script = << >>
  /\ CallStart
  /\ ClientReady

\* The steps that wait for nothing outside the process are taken once they
\* can be: the Go scheduler runs a runnable goroutine, so the foreground reads
\* what a Write offers, notices the closed pipe and decodes, and the pump
\* goroutine runs its deferred Close.  Nothing is assumed of the remote
\* stream: Stream may copy, return or fail at any time, or never.
FairSpec ==
  /\ InitHandoff
  /\ [][Next]_vars
  /\ WF_vars(ReadSome)
  /\ WF_vars(PumpClose)
  /\ WF_vars(ReadAllReturn)
  /\ WF_vars(Decode)

\* ------------------------------------------- main, src/unnamed/part_000

\* Where NewKubernetesClient can fail (lines 29, 34, 39 of kube.go).
ClientFailures == {"BuildConfigFromFlags", "NewRestConfig", "NewForConfig"}

\* NewKubernetesClient(kubeconfig), kube.go lines 27-49, when the step named
\* by failure fails ("none": no step does): the client and error returned,
\* and what was logged (lines 28 and 60).
NewKubernetesClient(failure) ==
  [client |-> IF failure = "none" THEN "ok" ELSE "nil",
   err |-> IF failure = "none" THEN NilErr ELSE Error(<<failure, " failed">>),
   log |-> IF failure = "NewRestConfig"
           THEN <<"Infof kubeconfig", "Warningf create new k8s rest client">>
           ELSE <<"Infof kubeconfig">>]

\* Line 9 of main.
MainNewClient ==
  /\ mainPc = "new"
  /\ \E failure \in ClientFailures \cup {"none"} :
       LET r == NewKubernetesClient(failure) IN
         /\ client' = r.client
         /\ newErr' = r.err
         /\ logged' = logged \o r.log
  /\ mainPc' = "check"
  /\ UNCHANGED <<pc, opt, opt0, isDestroy, cluster, fault, pod, req, netCalls, ret, err>>
  /\ UNCHANGED <<getErr, upgradeErr, made, script, first>>
  /\ UNCHANGED streamVars

\* Lines 10-12 of main: the error is logged, and main goes on.
MainCheckErr ==
  /\ mainPc = "check"
  /\ logged' = IF ~newErr.nil
               THEN Append(logged, "Errorf NewKubernetesClient err")
               ELSE logged
  /\ mainPc' = "call"
  /\ UNCHANGED <<pc, opt, opt0, isDestroy, cluster, fault, pod, req, netCalls, ret, err>>
  /\ UNCHANGED <<getErr, upgradeErr, made, script, first, client, newErr>>
  /\ UNCHANGED streamVars

\* Line 14 of main: kc.ExecuteCommand(&pkg.Option{}, false) is called.
MainExecute ==
  /\ mainPc = "call"
  /\ pc = "idle"
  /\ pc' = "start"
  /\ mainPc' = "wait"
  /\ UNCHANGED <<opt, opt0, isDestroy, cluster, fault, pod, req, netCalls, ret, err>>
  /\ UNCHANGED <<getErr, upgradeErr, made, script, first, client, newErr, logged>>
  /\ UNCHANGED streamVars

\* Lines 14-15 of main: the Response is dropped and main returns.
MainReturn ==
  /\ mainPc = "wait"
  /\ pc = "done"
  /\ mainPc' = "exit"
  /\ UNCHANGED <<pc, opt, opt0, isDestroy, cluster, fault, pod, req, netCalls, ret, err>>
  /\ UNCHANGED <<getErr, upgradeErr, made, script, first, client, newErr, logged>>
  /\ UNCHANGED streamVars

\* pkg.Option{}, line 14 of main.
ZeroOption == [NameSpace |-> "", PodName |-> "", Container |-> "", Commands |-> << >>]

\* main starts: no client yet, ExecuteCommand not called.
InitMain ==
  /\ mainPc = "new"
  /\ client = "nil"
  /\ newErr = NilErr
  /\ logged = << >>
  /\ first = << >>
  /\ pc = "idle"
  /\ opt = ZeroOption
  /\ isDestroy = FALSE
  /\ cluster \in Clusters
  /\ fault \in Faults
  /\ script = << >>
  /\ CallFresh

\* The program is entered through main, or ExecuteCommand is called by a
\* caller that holds a client.
InitProgram == InitMain \/ Init

NextMain ==
  \/ MainNewClient
  \/ MainCheckErr
  \/ MainExecute
  \/ MainReturn
  \/ Next

SpecMain == InitProgram /\ [][NextMain]_vars

\* ------------------------------------------------- the same call, repeated

\* The caller keeps the Response and calls ExecuteCommand again with the
\* same isDestroy and the same request: either the Option it passed before,
\* as the first call left it, or a fresh Option with the same field values.
\* The cluster and the remote command stay as they are.
CallAgain ==
  /\ pc = "done"
  /\ first = << >>
  /\ first' = <<[ret |-> ret[1], streamErr |-> streamErr, upgradeErr |-> upgradeErr]>>
  /\ \E o \in {opt, opt0} : opt' = o /\ opt0' = o
  /\ pc' = "start"
  /\ pod' = NoPod
  /\ req' = << >>
  /\ netCalls' = << >>
  /\ ret' = << >>
  /\ err' = NilErr
  /\ pumpPc' = "none"
  /\ stdoutRem' = << >>
  /\ stderrRem' = << >>
  /\ pending' = << >>
  /\ pipeErr' = NilErr
  /\ written' = << >>
  /\ buffer' = << >>
  /\ getErr' = NilErr
  /\ streamErr' = NilErr
  /\ upgradeErr' = NilErr
  /\ made' = NoneMade
  /\ UNCHANGED <<isDestroy, cluster, fault, script, client, mainPc, newErr, logged>>

InitTwice ==
  /\ opt \in {o \in Options : /\ o.Commands = <<"ls">>
                               /\ o.NameSpace # "default"
                               /\ o.Container # "app"}
  /\ isDestroy \in BOOLEAN
  /\ cluster \in {c \in Clusters : /\ c.Phase \in {"", "Running", "Failed"}
                                    /\ c.NameSpace \in {"", "default"}
                                    /\ c.Containers \in {<< >>, <<"sidecar", "app">>}}
  /\ fault \in Faults
  /\ script = << >>
  /\ CallStart
  /\ ClientReady

NextTwice == Next \/ CallAgain

SpecTwice == InitTwice /\ [][NextTwice]_vars

\* ------------------------------------- the same call, in the other mode
\* After a call has returned, the caller makes the same request again with
\* isDestroy the other way round, passing a fresh Option with the field
\* values of the first.  What the first call did is kept for comparison.
CallAgainOtherMode ==
  /\ pc = "done"
  /\ first = << >>
  /\ first' = <<[ret |-> ret[1], streamErr |-> streamErr, upgradeErr |-> upgradeErr,
                 getErr |-> getErr, netCalls |-> netCalls, made |-> made,
                 written |-> written]>>
  /\ isDestroy' = ~isDestroy
  /\ opt' = opt0
  /\ opt0' = opt0
  /\ pc' = "start"
  /\ pod' = NoPod
  /\ req' = << >>
  /\ netCalls' = << >>
  /\ ret' = << >>
  /\ err' = NilErr
  /\ pumpPc' = "none"
  /\ stdoutRem' = << >>
  /\ stderrRem' = << >>
  /\ pending' = << >>
  /\ pipeErr' = NilErr
  /\ written' = << >>
  /\ buffer' = << >>
  /\ getErr' = NilErr
  /\ streamErr' = NilErr
  /\ upgradeErr' = NilErr
  /\ made' = NoneMade
  /\ UNCHANGED <<cluster, fault, script, client, mainPc, newErr, logged>>

NextModes == Next \/ CallAgainOtherMode

SpecModes == InitTwice /\ [][NextModes]_vars

\* ------------------------------------------- calls that reach the decoder
\* The pod exists and runs, and the remote command prints a serialized
\* Response on stdout, alone or with a stderr line.

EnvelopeScripts ==
  {<<[out |-> Marshal(r), eout |-> e]>> : r \in EnvelopeResponses, e \in StderrOutputs}

InitEnvelope ==
  /\ opt \in {o \in Options : o.PodName = ClusterPodName /\ o.NameSpace = ""
                               /\ o.Commands = <<"ls">>}
  /\ isDestroy = FALSE
  /\ cluster \in {c \in Clusters : c.present /\ c.NameSpace = "default"
                                    /\ c.Phase = "Running" /\ c.Containers = <<"app">>}
  /\ fault = "none"
  /\ script \in EnvelopeScripts
  /\ CallStart
  /\ ClientReady

SpecEnvelope == InitEnvelope /\ [][Next]_vars

\* ------------------------------------------------------------- properties

Returned == pc = "done"
EffectiveNameSpace == IF opt0.NameSpace = "" THEN "default" ELSE opt0.NameSpace
\* No exec request was built, no pipe made and no goroutine started.
NoStream == req = << >> /\ pumpPc = "none" /\ written = << >> /\ buffer = << >>
\* The pod fetch answered that the requested pod does not exist.
NotFoundReported ==
  ~getErr.nil /\ getErr.msg = <<"pods \"", opt0.PodName, "\" not found">>
Mentions(text, piece) == \E i \in 1..Len(text) : text[i] = piece

\* C1: a request with an empty PodName returns code -1, success=false and
\* the empty-pod-name error, and no network call (pod fetch, exec request or
\* stream) is ever made for it.
C1_EmptyPodNameRejected ==
  opt0.PodName = "" =>
    /\ pc \in {"start", "done"}
    /\ netCalls = << >>
    /\ NoStream
    /\ Returned =>
         /\ Len(ret) = 1
         /\ ret[1].Code = -1
         /\ ret[1].Success = FALSE
         /\ ret[1].Err = <<"can not execute command with empty pod name">>

C1_Witness ==
  Returned /\ opt0.PodName = "" /\ opt0.NameSpace = "prod" /\ opt0.Container = "app"
    /\ isDestroy /\ cluster.present

\* C2: with a non-empty pod name, a fetch that reports the pod missing and
\* destroyMode=true, the call returns code 1, success=true and an empty
\* error, and no exec stream is opened.
C2_NotFoundDestroy ==
  (Returned /\ opt0.PodName # "" /\ NotFoundReported /\ isDestroy) =>
    /\ ret = <<[Code |-> 1, Success |-> TRUE, Err |-> << >>, Result |-> "nil"]>>
    /\ NoStream
    /\ Len(netCalls) = 1

C2_Witness ==
  Returned /\ opt0.PodName = "db" /\ NotFoundReported /\ isDestroy /\ cluster.present

\* C3: with a non-empty pod name, a fetch that reports the pod missing and
\* destroyMode=false, the call returns code -1 and success=false, and no exec
\* stream is opened.
C3_NotFoundNoDestroy ==
  (Returned /\ opt0.PodName # "" /\ NotFoundReported /\ ~isDestroy) =>
    /\ Len(ret) = 1
    /\ ret[1].Code = -1
    /\ ret[1].Success = FALSE
    /\ NoStream
    /\ Len(netCalls) = 1

C3_Witness ==
  Returned /\ opt0.PodName = "web" /\ NotFoundReported /\ ~isDestroy
    /\ cluster.present /\ cluster.NameSpace # EffectiveNameSpace

\* C4: when the fetched pod's phase is Succeeded or Failed the call fails
\* with code -1, success=false, whatever the requested container; the phase
\* decides before container selection and no exec stream is opened.
C4_CompletedPodRejected ==
  (pod.present /\ pod.Phase \in {"Succeeded", "Failed"}) =>
    /\ pc \in {"phase", "done"}
    /\ opt.Container = opt0.Container
    /\ NoStream
    /\ Returned =>
         /\ Len(ret) = 1
         /\ ret[1].Code = -1
         /\ ret[1].Success = FALSE
         /\ Mentions(ret[1].Err, pod.Phase)

\* A failed pod without containers, asked for with no container named.
C4_Witness ==
  Returned /\ pod.present /\ pod.Phase = "Failed" /\ pod.Containers = << >>
    /\ opt0.Container = ""

\* C5: a non-empty requested container that equals no container name of the
\* fetched, not completed pod makes the call fail with code -1,
\* success=false and an error naming the container and the pod; no exec
\* stream is opened.
C5_ContainerNotFound ==
  ( /\ pod.present
    /\ pod.Phase \notin {"Succeeded", "Failed"}
    /\ opt0.Container # ""
    /\ \A i \in 1..Len(pod.Containers) : pod.Containers[i] # opt0.Container ) =>
    /\ pc \in {"phase", "container", "done"}
    /\ NoStream
    /\ Returned =>
         /\ Len(ret) = 1
         /\ ret[1].Code = -1
         /\ ret[1].Success = FALSE
         /\ Mentions(ret[1].Err, opt0.Container)
         /\ Mentions(ret[1].Err, opt0.PodName)

\* The pod has a container "app" and the request names "App".
C5_Witness ==
  Returned /\ pod.present /\ pod.Phase = "Running" /\ opt0.Container = "App"
    /\ pod.Containers = <<"sidecar", "app">>

\* C6: the pod fetch and the exec request both use the namespace "default"
\* when the request's namespace is empty, and the request's namespace
\* unchanged otherwise.
C6_EffectiveNameSpace ==
  /\ \A i \in 1..Len(netCalls) : netCalls[i].NameSpace = EffectiveNameSpace
  /\ \A i \in 1..Len(req) : req[i].NameSpace = EffectiveNameSpace

C6_Witness ==
  /\ opt0.NameSpace = ""
  /\ Len(netCalls) = 2
  /\ netCalls[1].op = "get" /\ netCalls[2].op = "exec"
  /\ netCalls[2].NameSpace = "default"

\* C7: at every moment what ReadAll has accumulated, followed by the unread
\* part of the Write in progress, is exactly what the pump has written, in
\* write order; once ReadAll has returned the buffer is all of it.
C7_BufferIsWritten ==
  /\ buffer \o pending = written
  /\ pc \in {"decode", "done"} => buffer = written

\* A stderr Write landed between two stdout Writes and Stream returned nil.
C7_Witness ==
  /\ Returned
  /\ Len(buffer) >= 4
  /\ \E i \in 2..(Len(buffer) - 1) : buffer[i] = StderrToken
  /\ streamErr.nil

\* C8: when exec.Stream has failed, the pipe is closed with that error,
\* ReadAll ends with it, nothing is decoded, and the call returns the
\* read-failure Response (code -1, success=false).
C8_StreamErrorSurfaces ==
  ~streamErr.nil =>
    /\ pumpPc = "exited" => pipeErr = streamErr
    /\ pc # "decode"
    /\ Returned =>
         ret = <<[Code |-> -1, Success |-> FALSE,
                  Err |-> <<"read resp got error: ">> \o streamErr.msg,
                  Result |-> "nil"]>>

\* C8, its visible part alone: a call whose stream failed never returns a
\* successful Response decoded from the bytes copied before the failure.
C8_NoResultAfterStreamError ==
  (Returned /\ ~streamErr.nil) => (ret[1].Code = -1 /\ ret[1].Success = FALSE)

\* C9: the call never ends in a panic; whenever it has ended it has returned
\* a Response.
C9_AlwaysReturnsResponse ==
  /\ pc # "panic"
  /\ Returned => Len(ret) = 1

\* C10: the caller's Option keeps the field values it had when the call
\* started, on every path and at every step.
C10_OptionUnchanged == opt = opt0

\* The call went through ReadAll and json.Unmarshal before it returned.
Decoded == Returned /\ pumpPc = "exited"
\* Tokens of the remote output that are not JSON.
NonJSONTokens == {"hello", StderrToken}
IsDecodeFailure(r) ==
  /\ r.Code = -1
  /\ r.Success = FALSE
  /\ Mentions(r.Err, "unmarsh json ")
  /\ Mentions(r.Err, " got error: ")
  /\ r.Result = "nil"

\* C11 as claimed: when the stream ended without error and the collected
\* bytes are not a serialized Response, the call returns the decode failure
\* (code -1, success=false, the decode error as error, no result).
C11_NonEnvelopeIsDecodeFailure ==
  (Decoded /\ streamErr.nil /\ ~IsEnvelope(buffer)) => IsDecodeFailure(ret[1])

\* C11 as amended: when the stream ended without error and json.Unmarshal
\* rejects the collected bytes, the call returns the decode failure with the
\* decoder's message and no result; bytes that are empty or hold a token that
\* is not JSON are always rejected.
C11_DecodeErrorReported ==
  (Decoded /\ streamErr.nil) =>
    /\ ~Unmarshal(buffer).err.nil =>
         /\ IsDecodeFailure(ret[1])
         /\ \A i \in 1..Len(Unmarshal(buffer).err.msg) :
              Mentions(ret[1].Err, Unmarshal(buffer).err.msg[i])
    /\ (buffer = << >> \/ \E i \in 1..Len(buffer) : buffer[i] \in NonJSONTokens) =>
         IsDecodeFailure(ret[1])

\* A serialized Response spoiled by a stderr line.
C11_Witness ==
  /\ Decoded /\ streamErr.nil
  /\ Len(buffer) = 10
  /\ \E i \in 1..Len(buffer) : buffer[i] = StderrToken
  /\ IsDecodeFailure(ret[1])

\* C12: when the collected bytes are exactly the serialization of a
\* Response E, the call returns a Response with E's code, success, error and
\* result.
C12_EnvelopeRoundTrip ==
  \A r \in EnvelopeResponses : (Decoded /\ buffer = Marshal(r)) => ret = <<r>>

\* A failure envelope with a negative code, an error and a result.
C12_Witness ==
  /\ Decoded
  /\ buffer = Marshal([Code |-> -1, Success |-> FALSE, Err |-> <<"boom">>,
                       Result |-> "\"ok\""])
  /\ ret[1].Code = -1 /\ ret[1].Err = <<"boom">> /\ ret[1].Result = "\"ok\""

\* The second of two calls has returned, and in both the executor was
\* constructed with the same outcome and exec.Stream reported no error.
SecondReturned ==
  /\ first # << >>
  /\ Returned
  /\ first[1].upgradeErr = upgradeErr
  /\ first[1].streamErr.nil
  /\ streamErr.nil
\* The remote command prints on both of stdout and stderr.
WritesBothStreams ==
  script # << >> /\ script[1].out # << >> /\ script[1].eout # << >>

\* C13 as claimed: the second call returns the same Response as the first.
C13_SecondEqualsFirst == SecondReturned => ret[1] = first[1].ret

\* C13 as amended: the second call returns the same Response as the first
\* unless the remote command prints on both stdout and stderr.
C13_SecondEqualsFirstOneStream ==
  (SecondReturned /\ ~WritesBothStreams) => ret[1] = first[1].ret

\* Two calls that both ran the command and decoded what it printed on stdout,
\* the second with the Option the first call filled in.
C13_Witness ==
  /\ SecondReturned /\ ~WritesBothStreams
  /\ pumpPc = "exited"
  /\ Len(buffer) = 9
  /\ opt0.NameSpace = "default"
  /\ ret[1] = first[1].ret
  /\ ret[1].Success

\* The container the request asks for can be resolved in the fetched pod.
InPod(name) == \E i \in 1..Len(pod.Containers) : pod.Containers[i] = name
Resolvable ==
  IF opt0.Container = "" THEN Len(pod.Containers) > 0 ELSE InPod(opt0.Container)

\* C14: whenever the exec request is built its container is one of the
\* fetched pod's containers: the first one when the request named none, the
\* named one otherwise; when no such container exists no request is built.
C14_TargetContainerInPod ==
  /\ req # << >> =>
       /\ pod.present
       /\ InPod(req[1].Container)
       /\ req[1].Container =
            (IF opt0.Container = "" THEN pod.Containers[1] ELSE opt0.Container)
  /\ (pod.present /\ ~Resolvable) =>
       /\ req = << >>
       /\ pc \in {"phase", "container", "done", "panic"}

\* No container named, and the pod declares two.
C14_Witness ==
  /\ req # << >>
  /\ opt0.Container = ""
  /\ pod.Containers = <<"sidecar", "app">>
  /\ req[1].Container = "sidecar"
  /\ Len(netCalls) = 2

\* The call returned before the exec request could be used.
EarlyReturn ==
  /\ Returned
  /\ \/ opt0.PodName = ""
     \/ ~getErr.nil
     \/ pod.present /\ pod.Phase \in {"Succeeded", "Failed"}
     \/ pod.present /\ ~Resolvable
     \/ ~upgradeErr.nil
NumberOf(op) == Cardinality({i \in 1..Len(netCalls) : netCalls[i].op = op})

\* C15: a call makes at most one pipe and starts at most one goroutine, and
\* only after the pod was fetched, is not completed, the container was
\* resolved and the executor was constructed; a call that reads the pipe has
\* made exactly one of each; a call that returned earlier has made none; and
\* no call fetches the pod more than once.
C15_OnePumpAfterResolution ==
  /\ made.tasks <= 1 /\ made.pipes <= 1
  /\ made # NoneMade =>
       /\ getErr.nil /\ pod.present
       /\ pod.Phase \notin {"Succeeded", "Failed"}
       /\ Resolvable
       /\ req # << >> /\ upgradeErr.nil
       /\ NumberOf("get") = 1
  /\ (pc \in {"readall", "decode"} \/ pumpPc # "none") =>
       made = [pipes |-> 1, tasks |-> 1]
  /\ EarlyReturn => (made = NoneMade /\ pumpPc = "none")
  /\ NumberOf("get") <= 1

\* One call that ran the command, and so made its pipe and goroutine.
C15_Witness ==
  Returned /\ made = [pipes |-> 1, tasks |-> 1] /\ NumberOf("get") = 1
    /\ NumberOf("exec") = 1 /\ pumpPc = "exited"

\* C16: when NewSPDYExecutor fails the call returns code -1, success=false
\* and an error holding the executor's error; no pipe or goroutine is made,
\* the request is never sent, and nothing is read or decoded.
C16_UpgradeFailureAborts ==
  ~upgradeErr.nil =>
    /\ Returned
    /\ ret[1].Code = -1
    /\ ret[1].Success = FALSE
    /\ Mentions(ret[1].Err, "error when NewSPDYExecutor, err: ")
    /\ \A i \in 1..Len(upgradeErr.msg) : Mentions(ret[1].Err, upgradeErr.msg[i])
    /\ ret[1].Result = "nil"
    /\ made = NoneMade /\ pumpPc = "none"
    /\ NumberOf("exec") = 0
    /\ written = << >> /\ buffer = << >>

C16_Witness ==
  ~upgradeErr.nil /\ Returned /\ req # << >> /\ opt0.Container = "app"

\* C17: once NewKubernetesClient has returned an error the client is nil,
\* ExecuteCommand is never invoked, and after main's check the error is in
\* the log.
C17_ConstructionFailureIsFatal ==
  ~newErr.nil =>
    /\ client = "nil"
    /\ pc = "idle"
    /\ mainPc # "check" =>
         \E i \in 1..Len(logged) : logged[i] = "Errorf NewKubernetesClient err"

\* success is false exactly when code is negative.
FollowsConvention(r) == r.Success <=> r.Code >= 0
\* The Response was built by ExecuteCommand; it is not the decoded envelope
\* of line 193.
BuiltLocally == Returned /\ (~Decoded \/ ~err.nil)

\* C18 (as stated): every Response returned follows the code convention,
\* whether built locally or decoded from the remote output.
C18_EveryResponseFollowsConvention == Returned => FollowsConvention(ret[1])

\* C18: every Response that ExecuteCommand builds itself follows the code
\* convention; a Response that breaks it is the decoded remote output, whose
\* code and success are whatever that output states (0 and false when absent).
C18_LocalResponseFollowsConvention ==
  Returned =>
    \/ FollowsConvention(ret[1])
    \/ /\ ~BuiltLocally
       /\ Unmarshal(buffer).err.nil
       /\ ret[1] = Unmarshal(buffer).resp

\* A decode failure was reported with the Response built at line 189.
C18_Witness ==
  /\ BuiltLocally
  /\ Decoded
  /\ ret[1].Code = -1
  /\ ~ret[1].Success

\* exec.Stream has returned into the pump goroutine (line 167).
StreamReturned == pumpPc = "close"
\* A Write on the pipe is waiting for the reader.
WriteInProgress == pending # << >>

\* C19: once exec.Stream has returned, with or without an error, the pipe
\* writer is closed, ReadAll ends and ExecuteCommand returns a Response; and
\* a Write waiting on the pipe is always served by the reader.
C19_StreamReturnLeadsToResponse ==
  /\ StreamReturned ~> (pumpPc = "exited" /\ ~pipeErr.nil /\ Returned /\ Len(ret) = 1)
  /\ WriteInProgress ~> ~WriteInProgress

\* The pump wrote output, closed the pipe and exited, and the call returned.
C19_Witness ==
  /\ pumpPc = "exited"
  /\ written # << >>
  /\ buffer = written
  /\ Returned

\* The same request has returned in both modes, and what ExecuteCommand does
\* not decide went the same way in both: the outcome of constructing the
\* executor, the error of exec.Stream, and the bytes the stream wrote.
BothModesReturned ==
  /\ first # << >>
  /\ Returned
  /\ first[1].upgradeErr = upgradeErr
  /\ first[1].streamErr = streamErr
  /\ first[1].written = written

\* C20: when the pod fetch succeeds, or fails with an error other than the
\* not-found error for the requested pod, the call does the same in both
\* modes: the same fetch outcome, the same requests sent, the same pipe and
\* pump made, and equal Responses; a fetch error yields code -1,
\* success=false with that error's text.
C20_ModeMattersOnlyOnNotFound ==
  (BothModesReturned /\ ~NotFoundReported) =>
    /\ getErr = first[1].getErr
    /\ netCalls = first[1].netCalls
    /\ made = first[1].made
    /\ ret[1] = first[1].ret
    /\ ~getErr.nil => ret[1] = Response(-1, FALSE, getErr.msg, "nil")

\* Both modes were called and the pod fetch failed with another error than
\* not-found; the second call was the destroy-mode one.
C20_Witness ==
  /\ BothModesReturned
  /\ isDestroy
  /\ ~getErr.nil
  /\ ~NotFoundReported
  /\ ret[1].Code = -1

====
